---- MODULE Spec2Model ----
(***************************************************************************)
(* SmartPDF-OCR: page classification, recognition adapters, result scorer, *)
(* cache store and the extraction orchestrator.                            *)
(*                                                                         *)
(* Conventions of the model                                                *)
(*  - a Python str is a sequence of one-character strings;                 *)
(*  - a Python float confidence is an exact rational [num, den] (percent), *)
(*    so a mean of token confidences is represented without rounding;      *)
(*  - a Python dict is a sequence of [k, v] records in insertion order,    *)
(*    which is the order .items() enumerates;                              *)
(*  - None is the empty sequence and a present optional value x is <<x>>.  *)
(***************************************************************************)
EXTENDS Integers, Sequences, FiniteSets, TLC

VARIABLES
    sc_results,     \* scorer: the mapping handed to choose_best_result
    sc_best,        \* scorer: the tuple it returned (NONE before the call)
    cl_page,        \* classifier: the page handle given to analyze_page_content
    cl_info,        \* classifier: the dict it returned (NONE before the call)
    engines,        \* OCREngine: tesseract_available, easyocr_available
    cache,          \* the cache directory: the set of files [key, content]
    calls,          \* OCREngine: number of extract_text_comprehensive calls made
    last_call,      \* OCREngine: arguments and outcome of the latest call
    first_result,   \* history: per key, the first completed caching call and its result
    doc,            \* the opened PDF: one page handle per page
    phase,          \* process_pdf / batch_extract: position in the run
    pending,        \* page indices whose future has not completed yet
    completion,     \* history: the order in which the futures completed
    pages_info,     \* process_pages_parallel: collected, then sorted
    cursor,         \* _process_pages_for_extraction: position of the for loop
    pages_data,     \* _process_pages_for_extraction: one record per page
    batch_results,  \* batch_extract: collected, then sorted
    page_calls,     \* history: per processed page, the adapters and transforms invoked
    stalled,        \* page indices whose adapter call never returns
    pp_in,          \* preprocessing: image, document_type and the transform that raises
    pp_out,         \* preprocessing: what preprocess_image gave (NONE before the call)
    workers,        \* concurrent calls on one key: each worker's position and values
    ad_in,          \* one adapter or converter call: the operation and its input
    ad_out          \* one adapter or converter call: what it returned (NONE before)

vars == <<sc_results, sc_best, cl_page, cl_info, engines, cache, calls, last_call,
          first_result, doc, phase, pending, completion, pages_info, cursor,
          pages_data, batch_results, page_calls, stalled, pp_in, pp_out,
          workers, ad_in, ad_out>>

\* an optional value is a sequence of length at most one
NONE == <<>>
Some(x) == <<x>>

(***************************************************************************)
(* Strings                                                                 *)
(***************************************************************************)
\* the Cyrillic letters of the table caption are written cyr_X
UpperChars == {"H", "I", "O", "T", "cyr_T"}
LowerChars == {"e", "l", "o", "w", "r", "d", "a", "b",
               "cyr_a", "cyr_b", "cyr_l", "cyr_i", "cyr_ts"}
Letters == UpperChars \cup LowerChars
Digits == {"0", "1", "2", "3", "4", "5", "6", "7", "8", "9"}
AlnumChars == Letters \cup Digits
SpaceChars == {" ", "\n", "\t"}

isalnum(c) == c \in AlnumChars
isupper(c) == c \in UpperChars
isalpha(c) == c \in Letters
isdigit(c) == c \in Digits
isspace(c) == c \in SpaceChars

Rep(c, n) == [i \in 1..n |-> c]

RECURSIVE lstrip(_)
lstrip(s) ==
    IF s = <<>> THEN <<>>
    ELSE IF isspace(Head(s)) THEN lstrip(Tail(s)) ELSE s

RECURSIVE rstrip(_)
rstrip(s) ==
    IF s = <<>> THEN <<>>
    ELSE IF isspace(s[Len(s)]) THEN rstrip(SubSeq(s, 1, Len(s) - 1)) ELSE s

strip(s) == rstrip(lstrip(s))

\* ' '.join(s.split()): whitespace runs become one space, the ends are trimmed
\* of a run of whitespace only the first character stays, as one space, and
\* only between two words
collapse(s) ==
    LET stays(i) ==
            \/ ~isspace(s[i])
            \/ /\ i > 1 /\ ~isspace(s[i - 1])
               /\ \E j \in (i + 1)..Len(s) : ~isspace(s[j])
        kept == SelectSeq([i \in 1..Len(s) |-> i], stays)
    IN  [k \in 1..Len(kept) |-> IF isspace(s[kept[k]]) THEN " " ELSE s[kept[k]]]

split_join(s) == collapse(s)

replace(s, old, new) == [i \in 1..Len(s) |-> IF s[i] = old THEN new ELSE s[i]]

count_alnum(s) == Cardinality({i \in 1..Len(s) : isalnum(s[i])})

count_in(s, chars) == Cardinality({i \in 1..Len(s) : s[i] \in chars})

\* sep.join(list of str)
RECURSIVE join(_, _)
join(sep, ts) ==
    IF ts = <<>> THEN <<>>
    ELSE IF Len(ts) = 1 THEN Head(ts)
    ELSE Head(ts) \o sep \o join(sep, Tail(ts))

\* ' '.join(list of str)
RECURSIVE join_space(_)
join_space(ts) ==
    IF ts = <<>> THEN <<>>
    ELSE IF Len(ts) = 1 THEN Head(ts)
    ELSE Head(ts) \o <<" ">> \o join_space(Tail(ts))

(***************************************************************************)
(* utils.py                                                                *)
(***************************************************************************)
MIN_TEXT_LENGTH == 10

clean_text(text) ==
    IF text = <<>> THEN <<>>
    ELSE strip(replace(replace(split_join(text), "|", "I"), "0", "O"))

is_text_meaningful_always(text) == TRUE

is_text_meaningful(text) ==
    IF text = <<>> \/ Len(strip(text)) < MIN_TEXT_LENGTH THEN FALSE
    ELSE 10 * count_alnum(text) > 7 * Len(text)

(***************************************************************************)
(* Confidences: exact rationals in percent                                 *)
(***************************************************************************)
Conf(n) == [num |-> n, den |-> 1]
RatGt(a, b) == a.num * b.den > b.num * a.den
RatGe(a, b) == a.num * b.den >= b.num * a.den
RatEq(a, b) == a.num * b.den = b.num * a.den
ConfInRange(c) == c.den > 0 /\ RatGe(c, Conf(0)) /\ RatGe(Conf(100), c)

Min(a, b) == IF a < b THEN a ELSE b

(***************************************************************************)
(* ocr_engine.py: the result scorer                                        *)
(***************************************************************************)
\* the confidence term alone
quality_score_confidence_only(text, confidence) ==
    [num |-> 7 * confidence.num, den |-> 10 * confidence.den]

\* quality_score = confidence * 0.7 + min(len(text) / 100, 1.0) * 30
quality_score(text, confidence) ==
    [num |-> 7 * confidence.num + 3 * Min(Len(text), 100) * confidence.den,
     den |-> 10 * confidence.den]

NoBest == [text |-> <<>>, confidence |-> Conf(0), method |-> "none"]

\* results.items() x engine_results.items(), in enumeration order
RECURSIVE items(_)
items(results) ==
    IF results = <<>> THEN <<>>
    ELSE [i \in 1..Len(Head(results).v) |->
            [variant |-> Head(results).k,
             engine |-> Head(results).v[i].k,
             text |-> Head(results).v[i].v.text,
             confidence |-> Head(results).v[i].v.confidence]]
         \o items(Tail(results))

method_name(engine, variant) == engine \o "_" \o variant

choose_step_noskip(best, e) ==
    IF RatGt(quality_score(e.text, e.confidence), best.confidence)
    THEN [text |-> e.text, confidence |-> e.confidence,
          method |-> method_name(e.engine, e.variant)]
    ELSE best

\* one iteration of the loop body of choose_best_result
choose_step(best, e) ==
    IF ~is_text_meaningful(e.text) THEN best
    ELSE IF RatGt(quality_score(e.text, e.confidence), best.confidence)
         THEN [text |-> e.text, confidence |-> e.confidence,
               method |-> method_name(e.engine, e.variant)]
         ELSE best

RECURSIVE choose_fold(_, _)
choose_fold(es, best) ==
    IF es = <<>> THEN best ELSE choose_fold(Tail(es), choose_step(best, Head(es)))

choose_best_result(results) == choose_fold(items(results), NoBest)

(***************************************************************************)
(* ocr_engine.py: the recognition adapters                                 *)
(*                                                                         *)
(* What an engine answers is an input of the model:                        *)
(*   tesseract  [ok, val]: image_to_data raises (ok = FALSE) or returns    *)
(*              the tokens val, each [text, conf] with conf an integer;    *)
(*   easyocr    [ok, val]: readtext raises or returns the detections val,  *)
(*              each [text, conf] with conf in thousandths (0..1000 for    *)
(*              0.0..1.0).                                                 *)
(***************************************************************************)
RECURSIVE sum_conf(_)
sum_conf(ts) == IF ts = <<>> THEN 0 ELSE Head(ts).conf + sum_conf(Tail(ts))

stripped_texts(ts) == [i \in 1..Len(ts) |-> strip(ts[i].text)]

NoText == [text |-> <<>>, confidence |-> Conf(0)]

tesseract_keeps_zero(t) == t.conf >= 0 /\ strip(t.text) # <<>>

\* lines 80-82: int(conf) > 0 and the stripped text is not empty
tesseract_keeps(t) == t.conf > 0 /\ strip(t.text) # <<>>

extract_with_tesseract(available, raw) ==
    IF ~available THEN NoText
    ELSE IF ~raw.ok THEN NoText
    ELSE LET kept == SelectSeq(raw.val, tesseract_keeps)
         IN  [text |-> clean_text(join_space(stripped_texts(kept))),
              confidence |-> IF kept = <<>> THEN Conf(0)
                             ELSE [num |-> sum_conf(kept), den |-> Len(kept)]]

\* line 116: confidence > 0.1
easyocr_keeps(d) == d.conf > 100

easyocr_confidence_unscaled(kept) ==
    IF kept = <<>> THEN Conf(0) ELSE [num |-> sum_conf(kept), den |-> Len(kept)]

\* lines 118 and 122: the mean of confidence * 100; a thousandths value c
\* times 100 is c / 10 percent
easyocr_confidence(kept) ==
    IF kept = <<>> THEN Conf(0) ELSE [num |-> sum_conf(kept), den |-> 10 * Len(kept)]

extract_with_easyocr(available, raw) ==
    IF ~available THEN NoText
    ELSE IF ~raw.ok THEN NoText
    ELSE LET kept == SelectSeq(raw.val, easyocr_keeps)
         IN  [text |-> clean_text(join_space(stripped_texts(kept))),
              confidence |-> easyocr_confidence(kept)]

extract_with_both_engines_always(avail, traw, eraw) ==
    <<[k |-> "tesseract", v |-> extract_with_tesseract(avail.tesseract, traw)],
      [k |-> "easyocr", v |-> extract_with_easyocr(avail.easyocr, eraw)]>>

\* an exception of the first adapter would leave the function
extract_with_both_engines_stops(avail, traw, eraw) ==
    IF avail.tesseract /\ ~traw.ok THEN <<>>
    ELSE (IF avail.tesseract
            THEN <<[k |-> "tesseract", v |-> extract_with_tesseract(TRUE, traw)]>>
            ELSE <<>>)
         \o (IF avail.easyocr
               THEN <<[k |-> "easyocr", v |-> extract_with_easyocr(TRUE, eraw)]>>
               ELSE <<>>)

\* avail: [tesseract |-> tesseract_available, easyocr |-> easyocr_available]
extract_with_both_engines(avail, traw, eraw) ==
    (IF avail.tesseract
       THEN <<[k |-> "tesseract", v |-> extract_with_tesseract(TRUE, traw)]>>
       ELSE <<>>)
    \o (IF avail.easyocr
          THEN <<[k |-> "easyocr", v |-> extract_with_easyocr(TRUE, eraw)]>>
          ELSE <<>>)

engines_invoked(avail) ==
    (IF avail.tesseract THEN <<"tesseract">> ELSE <<>>)
    \o (IF avail.easyocr THEN <<"easyocr">> ELSE <<>>)

(***************************************************************************)
(* config.py DOCUMENT_TYPES and utils.py preprocess_image                  *)
(*                                                                         *)
(* An image is [pixels, ops]: the bytes of the rasterized page and the     *)
(* transforms applied to it since.  fail_at = k > 0 says the k-th          *)
(* transform of the list raises; no transform catches.                     *)
(***************************************************************************)
preprocessing_of_strict(document_type) ==
    CASE document_type = "text" -> <<"deskew", "noise_removal">>
      [] document_type = "table" -> <<"deskew", "line_detection">>
      [] document_type = "mixed" -> <<"deskew", "noise_removal", "contrast_enhancement">>
      [] OTHER -> <<>>

\* line 142: DOCUMENT_TYPES.get(document_type, DOCUMENT_TYPES["mixed"])["preprocessing"]
preprocessing_of(document_type) ==
    CASE document_type = "text" -> <<"deskew", "noise_removal">>
      [] document_type = "table" -> <<"deskew", "line_detection">>
      [] OTHER -> <<"deskew", "noise_removal", "contrast_enhancement">>

preprocess_image(image, preprocessing, fail_at) ==
    IF fail_at \in 1..Len(preprocessing) THEN NONE
    ELSE Some([image EXCEPT !.ops = @ \o preprocessing])

steps_started(preprocessing, fail_at) ==
    IF fail_at \in 1..Len(preprocessing) THEN SubSeq(preprocessing, 1, fail_at)
    ELSE preprocessing

\* env: what the avail answer on the two variants and which transform raises
extract_with_preprocessing(avail, image, document_type, env) ==
    LET no_pre == extract_with_both_engines(avail, env.t1, env.e1)
        preprocessed == preprocess_image(image, preprocessing_of(document_type), env.pre)
    IN  IF preprocessed = NONE THEN NONE
        ELSE Some(<<[k |-> "no_preprocessing", v |-> no_pre],
                    [k |-> "with_preprocessing",
                     v |-> extract_with_both_engines(avail, env.t2, env.e2)]>>)

\* the (engine, variant) pairs whose engine is called and raises; the second
\* variant is reached when no transform raised
adapter_raises(avail, env, second) ==
    {method_name(p.engine, p.variant) :
        p \in {q \in [engine : {"tesseract", "easyocr"},
                      variant : {"no_preprocessing", "with_preprocessing"}] :
                  /\ avail[q.engine]
                  /\ q.variant = "with_preprocessing" => second
                  /\ ~(CASE q.engine = "tesseract" /\ q.variant = "no_preprocessing" -> env.t1
                         [] q.engine = "easyocr" /\ q.variant = "no_preprocessing" -> env.e1
                         [] q.engine = "tesseract" /\ q.variant = "with_preprocessing" -> env.t2
                         [] OTHER -> env.e2).ok}}

(***************************************************************************)
(* utils.py: the cache store.  The directory is a set of files             *)
(* [key, content]; md5 is taken to be injective, so a key is the text it    *)
(* digests: the f-string of the pixel bytes (their repr), '_' and the       *)
(* document type.  str(dict) writes the fields in insertion order as       *)
(* (name, value) pairs; eval reads them back.                              *)
(***************************************************************************)
\* pixel bytes are sequences of one-character strings
Px1 == <<"p", "x", "1">>
Px2 == <<"p", "x", "2">>
Px3 == <<"p", "x", "3">>
NoPixels == <<>>

RECURSIVE repr_body(_, _)
repr_body(bytes, quote) ==
    IF bytes = <<>> THEN ""
    ELSE (IF Head(bytes) = "\\" THEN "\\\\"
          ELSE IF Head(bytes) = quote THEN "\\" \o quote
          ELSE Head(bytes))
         \o repr_body(Tail(bytes), quote)

\* repr(bytes): b'...' with ' and \ escaped, or b"..." when the bytes hold a '
\* and no "
repr_bytes(bytes) ==
    LET has(c) == \E i \in 1..Len(bytes) : bytes[i] = c
        quote == IF has("'") /\ ~has("\"") THEN "\"" ELSE "'"
    IN  "b" \o quote \o repr_body(bytes, quote) \o quote

RECURSIVE plain_text(_)
plain_text(bytes) == IF bytes = <<>> THEN "" ELSE Head(bytes) \o plain_text(Tail(bytes))

create_cache_key_plain(pixels, document_type) ==
    plain_text(pixels) \o "_" \o document_type

\* line 205: create_cache_key(f"{image.tobytes()}_{document_type}")
create_cache_key(pixels, document_type) ==
    repr_bytes(pixels) \o "_" \o document_type

save_to_cache_nothing(key, data, files) == files

save_to_cache(key, data, files) ==
    {f \in files : f.key # key} \cup {[key |-> key, content |-> data]}

load_from_cache(key, files) ==
    IF \E f \in files : f.key = key
    THEN Some((CHOOSE f \in files : f.key = key).content)
    ELSE NONE

str_result(r) ==
    << <<"text", r.text>>, <<"confidence", r.confidence>>, <<"method", r.method>>,
       <<"processing_time", r.processing_time>>, <<"all_results", r.all_results>>,
       <<"text_length", r.text_length>>, <<"is_meaningful", r.is_meaningful>>,
       <<"document_type", r.document_type>> >>

field(content, name) == (CHOOSE i \in 1..Len(content) : content[i][1] = name)

eval_result(content) ==
    [text |-> content[field(content, "text")][2],
     confidence |-> content[field(content, "confidence")][2],
     method |-> content[field(content, "method")][2],
     processing_time |-> content[field(content, "processing_time")][2],
     all_results |-> content[field(content, "all_results")][2],
     text_length |-> content[field(content, "text_length")][2],
     is_meaningful |-> content[field(content, "is_meaningful")][2],
     document_type |-> content[field(content, "document_type")][2]]

(***************************************************************************)
(* ocr_engine.py: extract_text_comprehensive                               *)
(*                                                                         *)
(* The outcome of one call: the dict returned (NONE when an exception      *)
(* leaves the call), the cache directory afterwards, whether the cache was *)
(* read / hit / written, the adapters and transforms invoked, and the      *)
(* faults met on the way (a raising transform, cache read or cache write,  *)
(* and the (engine, variant) pairs whose engine raised).                   *)
(***************************************************************************)
Outcome(ret, files, read, hit, written, invoked, faults) ==
    [ret |-> ret, files |-> files, read |-> read, hit |-> hit,
     written |-> written, invoked |-> invoked, faults |-> faults]

final_result(results, document_type, time) ==
    LET best == choose_best_result(results)
    IN  [text |-> best.text,
         confidence |-> best.confidence,
         method |-> best.method,
         processing_time |-> time,
         all_results |-> results,
         text_length |-> Len(best.text),
         is_meaningful |-> is_text_meaningful(best.text),
         document_type |-> document_type]

\* the entry found is not returned: the recognition runs and the file is rewritten
extract_text_comprehensive_refresh(avail, image, document_type, use_cache, env, files) ==
    LET cache_key == create_cache_key(image.pixels, document_type)
        results == extract_with_preprocessing(avail, image, document_type, env)
        invoked == engines_invoked(avail)
                   \o steps_started(preprocessing_of(document_type), env.pre)
                   \o (IF results = NONE THEN <<>> ELSE engines_invoked(avail))
    IN  IF results = NONE
          THEN Outcome(NONE, files, use_cache, FALSE, FALSE, invoked, {"transform"})
        ELSE LET final == final_result(results[1], document_type, env.time)
             IN  IF ~use_cache
                   THEN Outcome(Some(final), files, FALSE, FALSE, FALSE, invoked, {})
                 ELSE Outcome(Some(final),
                              save_to_cache(cache_key, str_result(final), files),
                              TRUE, FALSE, TRUE, invoked, {})

extract_text_comprehensive(avail, image, document_type, use_cache, env, files) ==
    LET cache_key == create_cache_key(image.pixels, document_type)
        cached_result == load_from_cache(cache_key, files)
        results == extract_with_preprocessing(avail, image, document_type, env)
        invoked == engines_invoked(avail)
                   \o steps_started(preprocessing_of(document_type), env.pre)
                   \o (IF results = NONE THEN <<>> ELSE engines_invoked(avail))
    IN  IF use_cache /\ env.read_fault
          THEN Outcome(NONE, files, TRUE, FALSE, FALSE, <<>>, {"cache_read"})
        ELSE IF use_cache /\ cached_result # NONE /\ cached_result # Some(<<>>)
          THEN Outcome(Some(eval_result(cached_result[1])), files, TRUE, TRUE, FALSE,
                       <<>>, {})
        ELSE IF results = NONE
          THEN Outcome(NONE, files, use_cache, FALSE, FALSE, invoked,
                       {"transform"} \cup adapter_raises(avail, env, FALSE))
        ELSE LET final == final_result(results[1], document_type, env.time)
                 raised == adapter_raises(avail, env, TRUE)
             IN  IF ~use_cache
                   THEN Outcome(Some(final), files, FALSE, FALSE, FALSE, invoked, raised)
                 ELSE IF env.write_fault
                   THEN Outcome(NONE, files, TRUE, FALSE, FALSE, invoked,
                                {"cache_write"} \cup raised)
                 ELSE Outcome(Some(final),
                              save_to_cache(cache_key, str_result(final), files),
                              TRUE, FALSE, TRUE, invoked, raised)

(***************************************************************************)
(* pdf_processor.py: native text and the page content classifier           *)
(*                                                                         *)
(* A page handle is a record of the outcomes of the container's probes:    *)
(*   mu_text  page.get_text() of PyMuPDF                                   *)
(*   pl_text  page.extract_text() of pdfplumber (None is the empty text,   *)
(*            as `extract_text() or ""` makes it)                          *)
(*   tables   number of regions find_tables() returns                      *)
(*   images   number of entries get_images() returns                       *)
(* each [ok |-> FALSE, ...] when the probe raises.                         *)
(***************************************************************************)
Ok(x) == [ok |-> TRUE, val |-> x]
FailText == [ok |-> FALSE, val |-> <<>>]
FailCount == [ok |-> FALSE, val |-> 0]

extract_page_text_native(page) ==
    IF ~page.mu_text.ok THEN <<>>
    ELSE IF Len(strip(page.mu_text.val)) < MIN_TEXT_LENGTH
         THEN IF ~page.pl_text.ok THEN <<>>
              ELSE IF Len(page.pl_text.val) > Len(page.mu_text.val)
                   THEN page.pl_text.val
                   ELSE page.mu_text.val
         ELSE page.mu_text.val

DegradedInfo_text(page_num) ==
    [page_num |-> page_num, content_type |-> "text", needs_ocr |-> FALSE]

\* lines 152-158
DegradedInfo(page_num) ==
    [page_num |-> page_num, content_type |-> "mixed", needs_ocr |-> TRUE]

content_type_images_first(tables, images, native_text) ==
    IF images > 0 /\ Len(strip(native_text)) < MIN_TEXT_LENGTH THEN "image"
    ELSE IF tables > 0 THEN "table"
    ELSE IF Len(strip(native_text)) < MIN_TEXT_LENGTH THEN "mixed"
    ELSE "text"

\* lines 132-139: the if / elif chain
content_type_of(tables, images, native_text) ==
    IF tables > 0 THEN "table"
    ELSE IF images > 0 /\ Len(strip(native_text)) < MIN_TEXT_LENGTH THEN "image"
    ELSE IF Len(strip(native_text)) < MIN_TEXT_LENGTH THEN "mixed"
    ELSE "text"

needs_ocr_by_type(content_type, native_text) == content_type # "text"

\* line 149
needs_ocr_of(content_type, native_text) == Len(strip(native_text)) < MIN_TEXT_LENGTH

analyze_page_content(page_num, page) ==
    LET native_text == extract_page_text_native(page)
        content_type == content_type_of(page.tables.val, page.images.val, native_text)
    IN  IF ~page.tables.ok \/ ~page.images.ok THEN DegradedInfo(page_num)
        ELSE [page_num |-> page_num,
              content_type |-> content_type,
              native_text_length |-> Len(strip(native_text)),
              has_tables |-> page.tables.val > 0,
              table_count |-> page.tables.val,
              has_images |-> page.images.val > 0,
              image_count |-> page.images.val,
              needs_ocr |-> needs_ocr_of(content_type, native_text)]

(***************************************************************************)
(* markdown_converter.py                                                   *)
(*                                                                         *)
(* text_to_markdown first passes the text through clean_text, which leaves *)
(* no line break, tab or '|' in it: the loop over lines sees one stripped  *)
(* line, which is a header, a list item or a paragraph, never a table      *)
(* line.                                                                   *)
(***************************************************************************)
is_header(line) ==
    IF Len(line) < 5 \/ Len(line) > 100 THEN FALSE
    ELSE IF ~isupper(line[1]) THEN FALSE
    ELSE IF line[Len(line)] = "." THEN FALSE
    ELSE count_in(line, Letters) > count_in(line, Digits) * 3

format_header(line) ==
    LET level == IF Len(line) < 20 THEN 2 ELSE IF Len(line) < 40 THEN 3 ELSE 4
    IN  Rep("#", level) \o <<" ">> \o line \o <<"\n">>

RECURSIVE leading_digits(_)
leading_digits(line) ==
    IF line = <<>> \/ ~isdigit(Head(line)) THEN 0 ELSE 1 + leading_digits(Tail(line))

\* ^\d+\.\s+
is_numbered(line) ==
    LET n == leading_digits(line)
    IN  n > 0 /\ Len(line) >= n + 2 /\ line[n + 1] = "." /\ isspace(line[n + 2])

\* ^[bullet characters]\s+
is_bullet(line) == Len(line) >= 2 /\ line[1] \in {"-", "*"} /\ isspace(line[2])

is_list_item(line) == is_numbered(line) \/ is_bullet(line)

\* _process_list on the one line: the formatted item
format_list_item(line) ==
    IF is_numbered(line)
    THEN <<"1", ".", " ">>
         \o strip(lstrip(SubSeq(line, leading_digits(line) + 2, Len(line))))
    ELSE LET item_text == strip(lstrip(SubSeq(line, 2, Len(line))))
         IN  <<"-", " ">> \o (IF item_text = <<>> THEN strip(line) ELSE item_text)

text_to_markdown(text) ==
    IF text = <<>> \/ strip(text) = <<>> THEN <<>>
    ELSE LET line == strip(clean_text(text))
         IN  IF line = <<>> THEN <<>>
             ELSE IF is_header(line) THEN strip(format_header(line))
             ELSE IF is_list_item(line) THEN strip(format_list_item(line) \o <<"\n">>)
             ELSE strip(line \o <<"\n">>)

TableCaption ==
    <<"#", "#", "#", " ", "cyr_T", "cyr_a", "cyr_b", "cyr_l", "cyr_i", "cyr_ts", "cyr_a", " ">>

DigitChar(n) == CASE n = 1 -> "1" [] n = 2 -> "2" [] n = 3 -> "3" [] OTHER -> "9"

markdown_row(cells) == <<"|", " ">> \o join(<<" ", "|", " ">>, cells) \o <<" ", "|">>

\* the lines of one table: caption, first row, separator, further rows, blank
table_lines(table, table_idx) ==
    LET rows == [r \in 1..Len(table) |-> [c \in 1..Len(table[r]) |-> strip(table[r][c])]]
        row_lines(r) ==
            IF rows[r] = <<>> THEN <<>>
            ELSE <<markdown_row(rows[r])>>
                 \o (IF r = 1
                     THEN <<markdown_row([c \in 1..Len(rows[r]) |-> <<"-", "-", "-">>])>>
                     ELSE <<>>)
        RECURSIVE all_rows(_)
        all_rows(r) == IF r > Len(rows) THEN <<>> ELSE row_lines(r) \o all_rows(r + 1)
    IN  IF table = <<>> \/ table[1] = <<>> THEN <<>>
        ELSE <<(<<"\n">> \o TableCaption \o <<DigitChar(table_idx)>> \o <<"\n">>)>>
             \o all_rows(1) \o << <<>> >>

RECURSIVE tables_lines(_, _)
tables_lines(tables, table_idx) ==
    IF table_idx > Len(tables) THEN <<>>
    ELSE table_lines(tables[table_idx], table_idx) \o tables_lines(tables, table_idx + 1)

process_tables_from_data(tables) ==
    IF tables = <<>> THEN <<>> ELSE join(<<"\n">>, tables_lines(tables, 1))

combine_text_and_tables(text, tables) ==
    LET combined == (IF text # <<>> THEN <<text>> ELSE <<>>)
                    \o (IF tables # <<>>
                        THEN (IF text # <<>> THEN << <<"\n", "-", "-", "-", "\n">> >> ELSE <<>>)
                             \o <<tables>>
                        ELSE <<>>)
    IN  join(<<"\n">>, combined)

(***************************************************************************)
(* pdf_processor.py: rasterization and table extraction.  A page handle    *)
(* also carries                                                            *)
(*   render      the pixel bytes convert_from_path yields for the page, or *)
(*               a failure ([ok |-> FALSE]: it raises or yields no image)  *)
(*   table_data  what extract() returns for each region of find_tables()   *)
(***************************************************************************)
FailRender == [ok |-> FALSE, val |-> NoPixels]

convert_page_to_image(page) ==
    IF page.render.ok THEN Some([pixels |-> page.render.val, ops |-> <<>>]) ELSE NONE

is_real_table(t) == t # <<>>

extract_tables_from_page(page) ==
    IF ~page.tables.ok THEN <<>> ELSE SelectSeq(page.table_data, is_real_table)

(***************************************************************************)
(* main.py: _process_single_page and the body of the extraction loop       *)
(***************************************************************************)
PageOutcome(record, files, invoked) ==
    [record |-> record, files |-> files, invoked |-> invoked]

native_confidence_half == Conf(50)

\* line 203
native_confidence == Conf(100)

fallback_confidence_always(native_text) == Conf(50)

\* line 215: 50.0 if native_text else 0.0
fallback_confidence(native_text) == IF native_text # <<>> THEN Conf(50) ELSE Conf(0)

final_method_of_ocr(ocr_result, native_text) == ocr_result.method

\* line 232
final_method_of(ocr_result, native_text) ==
    IF Len(ocr_result.text) > Len(native_text) THEN ocr_result.method ELSE "native"

\* penv: [ocr |-> the environment of the recognition call, time |-> elapsed]
\* record = NONE: an exception leaves _process_single_page
process_single_page(avail, page_num, page, content_type, needs_ocr, penv, files) ==
    LET native_text == extract_page_text_native(page)
        image == convert_page_to_image(page)
    IN  IF ~needs_ocr /\ Len(strip(native_text)) >= MIN_TEXT_LENGTH
          THEN PageOutcome(Some([page_num |-> page_num,
                                 text |-> text_to_markdown(native_text),
                                 confidence |-> native_confidence,
                                 method |-> "native_text",
                                 processing_time |-> penv.time,
                                 content_type |-> content_type]),
                           files, <<>>)
        ELSE IF image = NONE
          THEN PageOutcome(Some([page_num |-> page_num,
                                 text |-> native_text,
                                 confidence |-> fallback_confidence(native_text),
                                 method |-> "native_fallback",
                                 processing_time |-> penv.time,
                                 content_type |-> content_type]),
                           files, <<>>)
        ELSE LET out == extract_text_comprehensive(avail, image[1], content_type,
                                                   TRUE, penv.ocr, files)
             IN  IF out.ret = NONE THEN PageOutcome(NONE, out.files, out.invoked)
                 ELSE
                 LET ocr_result == out.ret[1]
                     ocr_text == ocr_result.text
                     longer == Len(ocr_text) > Len(native_text)
                     chosen == IF longer THEN ocr_text ELSE native_text
                     final_method == final_method_of(ocr_result, native_text)
                     tables == IF content_type = "table"
                               THEN extract_tables_from_page(page) ELSE <<>>
                     with_tables ==
                         IF tables # <<>>
                         THEN combine_text_and_tables(chosen,
                                                      process_tables_from_data(tables))
                         ELSE chosen
                     final_text == IF with_tables # <<>>
                                   THEN text_to_markdown(with_tables) ELSE with_tables
                 IN  PageOutcome(Some([page_num |-> page_num,
                                       text |-> final_text,
                                       confidence |-> ocr_result.confidence,
                                       method |-> final_method,
                                       processing_time |-> penv.time,
                                       content_type |-> content_type,
                                       ocr_details |-> ocr_result]),
                                 out.files, out.invoked)

FailedPage(page_num) ==
    [page_num |-> page_num, text |-> <<>>, confidence |-> Conf(0),
     method |-> "failed", error |-> "str(e)"]

extraction_step_drop(pages, page_info, record) ==
    IF record = NONE THEN pages ELSE Append(pages, page_info @@ record[1])

\* lines 162-175: page_data.update(page_info) and append, or the failed record
extraction_step(pages, page_info, record) ==
    IF record = NONE THEN Append(pages, FailedPage(page_info.page_num))
    ELSE Append(pages, page_info @@ record[1])

\* list.sort(key = lambda x: x[key]): a stable insertion sort
RECURSIVE insert_by(_, _, _)
insert_by(sorted, r, key) ==
    IF sorted = <<>> THEN <<r>>
    ELSE IF r[key] < sorted[Len(sorted)][key]
         THEN Append(insert_by(SubSeq(sorted, 1, Len(sorted) - 1), r, key),
                     sorted[Len(sorted)])
         ELSE Append(sorted, r)

RECURSIVE sort_from(_, _, _)
sort_from(sorted, rest, key) ==
    IF rest = <<>> THEN sorted
    ELSE sort_from(insert_by(sorted, Head(rest), key), Tail(rest), key)

sort_not(records, key) == records

sort(records, key) == sort_from(<<>>, records, key)

(***************************************************************************)
(* Texts and (text, confidence) pairs the scorer is exercised on           *)
(***************************************************************************)
Empty == <<>>
Hello == <<"H", "e", "l", "l", "o">>
HelloWorld == Hello \o <<" ", "w", "o", "r", "l", "d">>
TenA == Rep("a", MIN_TEXT_LENGTH)
Long100 == Rep("a", 100)
Symbols == <<"a", "-", "b", "-", "a", "-", "b", "-", "a", "-", "b">>
Edge70 == Rep("a", 7) \o Rep("-", 3)
Padded == <<" ", " ">> \o Rep("a", 8) \o <<" ", " ">>

Pair(t, c) == [text |-> t, confidence |-> Conf(c)]

ScorerPairs ==
    { Pair(Empty, 0), Pair(Hello, 95), Pair(HelloWorld, 90), Pair(HelloWorld, 0),
      Pair(TenA, 30), Pair(Long100, 20), Pair(Long100, 100),
      Pair(Symbols, 99), Pair(Edge70, 80), Pair(Padded, 80) }

\* the dict one variant maps to: tesseract first, then easyocr, each optional
EngineDict(t, e) ==
    (IF t = NONE THEN <<>> ELSE <<[k |-> "tesseract", v |-> t[1]]>>)
    \o (IF e = NONE THEN <<>> ELSE <<[k |-> "easyocr", v |-> e[1]]>>)

ResultsDict(n, w) ==
    <<[k |-> "no_preprocessing", v |-> n], [k |-> "with_preprocessing", v |-> w]>>

OptScorerPairs == {NONE} \cup {Some(p) : p \in ScorerPairs}

ScorerInputs ==
    { ResultsDict(EngineDict(t1, e1), EngineDict(t2, e2)) :
        t1 \in OptScorerPairs, e1 \in OptScorerPairs,
        t2 \in OptScorerPairs, e2 \in OptScorerPairs }

(***************************************************************************)
(* Page handles the classifier is exercised on                             *)
(***************************************************************************)
NineA == Rep("a", MIN_TEXT_LENGTH - 1)
ElevenA == Rep("a", MIN_TEXT_LENGTH + 1)
TwelveB == Rep("b", MIN_TEXT_LENGTH + 2)

MaxTables == 2
MaxImages == 1

ClassifierPages ==
    [mu_text : {FailText} \cup {Ok(t) : t \in {Empty, NineA, TenA, ElevenA, Padded}},
     pl_text : {FailText} \cup {Ok(t) : t \in {Empty, Hello, TwelveB}},
     tables : {FailCount} \cup {Ok(n) : n \in 0..MaxTables},
     images : {FailCount} \cup {Ok(n) : n \in 0..MaxImages}]

(***************************************************************************)
(* Engine answers, images and call environments the engine is exercised on *)
(***************************************************************************)
World == <<"w", "o", "r", "l", "d">>
Tok(t, c) == [text |-> t, conf |-> c]
RaiseRaw == [ok |-> FALSE, val |-> <<>>]

\* "Hello" 96 and "world " 84: ("Hello world", 90)
TessGood == Ok(<<Tok(Hello, 96), Tok(World \o <<" ">>, 84)>>)
\* a token of confidence 0 and a blank token: nothing is kept
TessDropped == Ok(<<Tok(TwelveB, 0), Tok(<<" ">>, 95)>>)
\* one detection of confidence 1.0
EasyGood == Ok(<<Tok(ElevenA, 1000)>>)
\* a blank detection of confidence 0.5 and a detection of confidence exactly 0.1
EasyBlank == Ok(<<Tok(<<" ">>, 500), Tok(TwelveB, 100)>>)

Image(px) == [pixels |-> px, ops |-> <<>>]

MaxTime == 2
MaxCalls == 2

Availabilities == [tesseract : BOOLEAN, easyocr : BOOLEAN]

Envs(T1, E1, Pres, T2, E2, Times, ReadFaults, WriteFaults) ==
    [t1 : T1, e1 : E1, pre : Pres, t2 : T2, e2 : E2, time : Times,
     read_fault : ReadFaults, write_fault : WriteFaults]

(***************************************************************************)
(* Documents the orchestrator is exercised on                              *)
(***************************************************************************)
Cell(c) == <<c>>
Table1 == << <<Cell("a"), Cell("b")>>, <<Cell("1"), Cell("2")>> >>

Page(mu, pl, tables, table_data, images, render) ==
    [mu_text |-> mu, pl_text |-> pl, tables |-> tables, table_data |-> table_data,
     images |-> images, render |-> render]

\* native text, no tables, no images
PageText == Page(Ok(HelloWorld), Ok(Empty), Ok(0), <<>>, Ok(0), Ok(Px1))
\* native text and a table
PageTableText == Page(Ok(TwelveB), Ok(Empty), Ok(1), <<Table1>>, Ok(0), Ok(Px1))
\* a scan: no native text, one embedded image
PageScan == Page(Ok(Empty), Ok(Empty), Ok(0), <<>>, Ok(1), Ok(Px1))
\* a scanned table
PageTableScan == Page(Ok(Empty), Ok(Empty), Ok(1), <<Table1>>, Ok(1), Ok(Px1))
\* a short native text on a page that cannot be rasterized
PageShortNoRender == Page(Ok(Hello), Ok(Empty), Ok(0), <<>>, Ok(0), FailRender)
\* native extraction fails on a page that cannot be rasterized
PageBlankNoRender == Page(FailText, Ok(Empty), Ok(0), <<>>, Ok(1), FailRender)
\* native text, but table detection fails
PageProbeFails == Page(Ok(HelloWorld), Ok(Empty), FailCount, <<>>, Ok(0), Ok(Px2))

PipelinePages ==
    {PageText, PageTableText, PageScan, PageTableScan, PageShortNoRender,
     PageBlankNoRender, PageProbeFails}

MaxPages == 2

Docs == UNION {[1..n -> PipelinePages] : n \in 1..MaxPages}

\* the engines' answers on the unprocessed image vary; one run each with a
\* failing transform, a failing cache read and a failing cache write
PipelineOcrEnvs ==
    Envs({TessGood, TessDropped}, {EasyGood, EasyBlank}, {0},
         {TessDropped}, {EasyBlank}, {1}, {FALSE}, {FALSE})
    \cup Envs({TessGood}, {EasyGood}, {1}, {TessDropped}, {EasyBlank}, {1},
              {FALSE}, {FALSE})
    \cup Envs({TessGood}, {EasyGood}, {0}, {TessDropped}, {EasyBlank}, {1},
              {TRUE}, {FALSE})
    \cup Envs({TessGood}, {EasyGood}, {0}, {TessDropped}, {EasyBlank}, {1},
              {FALSE}, {TRUE})

PipelineEnvs == [ocr : PipelineOcrEnvs, time : {1}]

(***************************************************************************)
(* Idle values of the parts a specification does not exercise              *)
(***************************************************************************)
ScorerIdle == sc_results = <<>> /\ sc_best = NONE
ClassifierIdle == cl_page = NONE /\ cl_info = NONE
EngineIdle ==
    /\ engines = [tesseract |-> FALSE, easyocr |-> FALSE]
    /\ cache = {} /\ calls = 0 /\ last_call = NONE /\ first_result = {}
PipelineIdle ==
    /\ doc = <<>> /\ phase = "idle" /\ pending = {} /\ completion = <<>>
    /\ pages_info = <<>> /\ cursor = 1 /\ pages_data = <<>> /\ batch_results = <<>>
    /\ page_calls = <<>> /\ stalled = {}

PolicyIdle ==
    /\ pp_in = NONE /\ pp_out = NONE /\ workers = <<>>
    /\ ad_in = NONE /\ ad_out = NONE

scorer_vars == <<sc_results, sc_best>>
policy_vars == <<pp_in, pp_out, workers, ad_in, ad_out>>
classifier_vars == <<cl_page, cl_info>>
engine_vars == <<engines, cache, calls, last_call, first_result>>
pipeline_vars ==
    <<doc, phase, pending, completion, pages_info, cursor, pages_data, batch_results,
      page_calls, stalled>>

(***************************************************************************)
(* SpecScorer: choose_best_result applied to every mapping of ScorerInputs *)
(***************************************************************************)
ScorerInit ==
    /\ sc_results \in ScorerInputs
    /\ sc_best = NONE
    /\ ClassifierIdle /\ EngineIdle /\ PipelineIdle /\ PolicyIdle

ChooseBest ==
    /\ sc_best = NONE
    /\ sc_results # <<>>
    /\ sc_best' = Some(choose_best_result(sc_results))
    /\ UNCHANGED <<sc_results, classifier_vars, engine_vars, pipeline_vars, policy_vars>>

ScorerNext == ChooseBest

SpecScorer == ScorerInit /\ [][ScorerNext]_vars

\* the claims' reading of "meaningful": stripped length at least the minimum and
\* alphanumeric ratio above 0.7
Meaningful(text) ==
    /\ Len(strip(text)) >= MIN_TEXT_LENGTH
    /\ Len(text) > 0
    /\ 10 * count_alnum(text) > 7 * Len(text)

ScorerDone == sc_best # NONE
ScBest == sc_best[1]
ScEntries == items(sc_results)
ScMeaningful == {i \in 1..Len(ScEntries) : Meaningful(ScEntries[i].text)}
ScQuality(i) == quality_score(ScEntries[i].text, ScEntries[i].confidence)
ScIsEntry(b, i) ==
    /\ b.text = ScEntries[i].text
    /\ b.confidence = ScEntries[i].confidence
    /\ b.method = method_name(ScEntries[i].engine, ScEntries[i].variant)

\* C1: the scorer returns a meaningful pair of maximum quality; no meaningful
\* pair has strictly higher quality than the returned one.
C1_ReturnsMaxQuality ==
    (ScorerDone /\ ScMeaningful # {}) =>
        \E i \in ScMeaningful :
            /\ ScIsEntry(ScBest, i)
            /\ \A j \in ScMeaningful : ~RatGt(ScQuality(j), ScQuality(i))

PairA == Pair(HelloWorld, 90)
PairB == Pair(Hello, 95)
ScenarioD ==
    /\ sc_results # <<>>
    /\ \A i \in 1..Len(ScEntries) :
          [text |-> ScEntries[i].text, confidence |-> ScEntries[i].confidence]
              \in {PairA, PairB}
    /\ \E v \in 1..Len(sc_results) :
          {sc_results[v].v[i].v : i \in 1..Len(sc_results[v].v)} = {PairA, PairB}

\* C2 (as amended): in scenario D, B's text "Hello" is below the minimum
\* meaningful length and is discarded; quality(A) = 66.3 and the scorer
\* returns A: best_text "Hello world" with best_confidence 90.
C2_ScenarioDSelectsA ==
    (ScorerDone /\ ScenarioD) =>
        /\ ~Meaningful(PairB.text)
        /\ RatEq(quality_score(PairA.text, PairA.confidence), [num |-> 663, den |-> 10])
        /\ ScBest.text = HelloWorld
        /\ ScBest.confidence = Conf(90)

\* C2 (as stated): in scenario D the scorer selects B, best_text "Hello" with
\* best_confidence 95.
C2_ScenarioDSelectsB ==
    (ScorerDone /\ ScenarioD) =>
        /\ ScBest.text = Hello
        /\ ScBest.confidence = Conf(95)

C2_Witness == ScorerDone /\ ScenarioD /\ ScBest.method = "tesseract_no_preprocessing"

\* C3: a pair whose text is not meaningful is never selected, and when no pair
\* is meaningful the scorer returns ("", 0, "none").
C3_NonMeaningfulNeverSelected ==
    ScorerDone =>
        /\ (ScMeaningful = {} => ScBest = NoBest)
        /\ (ScBest # NoBest => \E i \in ScMeaningful : ScIsEntry(ScBest, i))

C3_Witness ==
    /\ ScorerDone
    /\ ScBest.method # "none"
    /\ \E i \in 1..Len(ScEntries) :
          /\ i \notin ScMeaningful
          /\ RatGt(ScEntries[i].confidence, ScBest.confidence)

C3_WitnessNone == ScorerDone /\ Len(ScEntries) = 4 /\ ScMeaningful = {} /\ ScBest = NoBest

(***************************************************************************)
(* SpecClassify: analyze_page_content applied to every page handle of      *)
(* ClassifierPages                                                         *)
(***************************************************************************)
ClassifyInit ==
    /\ cl_page \in {Some(p) : p \in ClassifierPages}
    /\ cl_info = NONE
    /\ ScorerIdle /\ EngineIdle /\ PipelineIdle /\ PolicyIdle

AnalyzePage ==
    /\ cl_page # NONE
    /\ cl_info = NONE
    /\ cl_info' = Some(analyze_page_content(0, cl_page[1]))
    /\ UNCHANGED <<cl_page, scorer_vars, engine_vars, pipeline_vars, policy_vars>>

ClassifyNext == AnalyzePage

SpecClassify == ClassifyInit /\ [][ClassifyNext]_vars

ClPage == cl_page[1]
ClInfo == cl_info[1]
\* the probes all answered: the dict is the one of lines 141-150
ClClassified == cl_info # NONE /\ "native_text_length" \in DOMAIN ClInfo
ClNativeLen == Len(strip(extract_page_text_native(ClPage)))

\* C6: content_type is assigned by first match on (table count, image count,
\* stripped native-text length): tables -> table; else images and length < T
\* -> image; else length < T -> mixed; else text.
C6_FirstMatchPrecedence ==
    ClClassified =>
        /\ ClInfo.table_count = ClPage.tables.val
        /\ ClInfo.image_count = ClPage.images.val
        /\ ClInfo.native_text_length = ClNativeLen
        /\ ClInfo.content_type =
              CASE ClInfo.table_count > 0 -> "table"
                [] ClInfo.table_count = 0 /\ ClInfo.image_count > 0
                     /\ ClInfo.native_text_length < MIN_TEXT_LENGTH -> "image"
                [] ClInfo.table_count = 0 /\ ClInfo.image_count = 0
                     /\ ClInfo.native_text_length < MIN_TEXT_LENGTH -> "mixed"
                [] OTHER -> "text"

\* a page with tables and images and a short text, classified table
C6_Witness ==
    /\ ClClassified
    /\ ClInfo.table_count > 0 /\ ClInfo.image_count > 0
    /\ ClInfo.native_text_length < MIN_TEXT_LENGTH
    /\ ClInfo.content_type = "table"

\* C7: needs_ocr is true exactly when the stripped native-text length is below
\* T, whichever content_type branch was taken.
C7_NeedsOcrIffShort ==
    ClClassified =>
        /\ ClInfo.native_text_length = ClNativeLen
        /\ ClInfo.needs_ocr = (ClNativeLen < MIN_TEXT_LENGTH)
        /\ (ClInfo.content_type \in {"image", "mixed"} => ClInfo.needs_ocr)

\* a table page with at least T characters of native text: no recognition
C7_Witness ==
    /\ ClClassified
    /\ ClInfo.content_type = "table"
    /\ ClNativeLen >= MIN_TEXT_LENGTH
    /\ ~ClInfo.needs_ocr

(***************************************************************************)
(* SpecOcr: an OCREngine and a sequence of extract_text_comprehensive      *)
(* calls on it, sharing one cache directory                                *)
(***************************************************************************)
OcrImages == {Image(Px1)}
OcrDocTypes == {"text", "image"}
\* every combination of engine answers at one elapsed time; every elapsed time,
\* failing transform and cache fault with one combination of answers; one
\* engine raises on one variant, the other engine on the other variant, and
\* all engines raise
OcrRaiseEnvs ==
    Envs({RaiseRaw}, {EasyGood}, {0}, {TessGood}, {EasyBlank}, {1}, {FALSE}, {FALSE})
    \cup Envs({TessGood}, {EasyBlank}, {0}, {TessGood}, {RaiseRaw}, {1}, {FALSE}, {FALSE})
    \cup Envs({RaiseRaw}, {RaiseRaw}, {0}, {RaiseRaw}, {RaiseRaw}, {1}, {FALSE}, {FALSE})
OcrEnvs ==
    Envs({TessGood, TessDropped}, {EasyGood, EasyBlank}, {0},
         {TessGood, TessDropped}, {EasyGood, EasyBlank}, {1}, {FALSE}, {FALSE})
    \cup Envs({TessGood}, {EasyBlank}, {0, 2},
              {TessGood}, {EasyBlank}, 1..MaxTime, BOOLEAN, BOOLEAN)
    \cup OcrRaiseEnvs

OcrInit ==
    /\ engines \in Availabilities
    /\ cache = {} /\ calls = 0 /\ last_call = NONE /\ first_result = {}
    /\ ScorerIdle /\ ClassifierIdle /\ PipelineIdle /\ PolicyIdle

\* one call, from entry to return or raise
ExtractCall(image, document_type, use_cache, env) ==
    /\ calls < MaxCalls
    /\ \E out \in {extract_text_comprehensive(engines, image, document_type,
                                              use_cache, env, cache)},
          key \in {create_cache_key(image.pixels, document_type)} :
        /\ calls' = calls + 1
        /\ cache' = out.files
        /\ last_call' = Some([pixels |-> image.pixels, document_type |-> document_type,
                              use_cache |-> use_cache, ret |-> out.ret,
                              read |-> out.read, hit |-> out.hit,
                              written |-> out.written, invoked |-> out.invoked,
                              faults |-> out.faults])
        /\ first_result' =
              IF use_cache /\ out.ret # NONE /\ ~\E f \in first_result : f.key = key
              THEN first_result \cup {[key |-> key, result |-> out.ret[1],
                                       pixels |-> image.pixels,
                                       document_type |-> document_type]}
              ELSE first_result
        /\ UNCHANGED <<engines, scorer_vars, classifier_vars, pipeline_vars,
                       policy_vars>>

OcrNext ==
    \E image \in OcrImages, document_type \in OcrDocTypes, use_cache \in BOOLEAN,
       env \in OcrEnvs :
        ExtractCall(image, document_type, use_cache, env)

SpecOcr == OcrInit /\ [][OcrNext]_vars

Last == last_call[1]
LastKey == create_cache_key(Last.pixels, Last.document_type)
Returned == last_call # NONE /\ Last.ret # NONE
\* every ComprehensiveResult in sight: the one just returned and the cached ones
ComprehensiveResults ==
    (IF Returned THEN {Last.ret[1]} ELSE {})
    \cup {eval_result(f.content) : f \in cache}

\* C4: in every ComprehensiveResult, freshly computed or loaded from the cache,
\* confidence = 0 exactly when text = "".
C4_ZeroConfidenceIffEmptyText ==
    \A r \in ComprehensiveResults : (r.confidence.num = 0) <=> (r.text = <<>>)

\* a result with a non-empty text served from the cache
C4_Witness ==
    /\ Returned /\ Last.hit
    /\ Last.ret[1].text # <<>> /\ Last.ret[1].confidence.num > 0
    /\ \E v \in 1..2 : \E i \in 1..Len(Last.ret[1].all_results[v].v) :
          /\ Last.ret[1].all_results[v].v[i].v.text = <<>>
          /\ Last.ret[1].all_results[v].v[i].v.confidence.num > 0

\* C10: once a caching call for (pixel bytes, document_type) has completed, every
\* later caching call with the same pixel bytes and document_type returns a
\* result equal to the first one in every field.
C10_CachedResultIdentical ==
    (Returned /\ Last.use_cache) =>
        \A f \in first_result : f.key = LastKey => Last.ret[1] = f.result

\* a second caching call for a key, answered with the first call's result
C10_Witness ==
    /\ Returned /\ Last.use_cache /\ Last.hit /\ calls >= 2
    /\ \E f \in first_result : f.key = LastKey /\ Last.ret[1] = f.result

(***************************************************************************)
(* Spec: one run of SmartPDFOCR.process_pdf on an opened document          *)
(* (process_pages_parallel, then _process_pages_for_extraction and the     *)
(* merger's sort), or one run of OCREngine.batch_extract on the rasterized *)
(* pages of a document.  A future completes at any time, in any order.     *)
(***************************************************************************)
PageCount == Len(doc)
PageOf(page_num) == doc[page_num + 1]

Init ==
    /\ doc \in Docs
    /\ phase \in {"classify", "batch"}
    /\ phase = "batch" => \A i \in 1..Len(doc) : doc[i].render.ok
    /\ pending = 0..(Len(doc) - 1)
    /\ completion = <<>>
    /\ pages_info = <<>> /\ cursor = 1 /\ pages_data = <<>> /\ batch_results = <<>>
    /\ page_calls = <<>> /\ stalled = {}
    /\ engines = [tesseract |-> TRUE, easyocr |-> TRUE]
    /\ cache = {} /\ calls = 0 /\ last_call = NONE /\ first_result = {}
    /\ ScorerIdle /\ ClassifierIdle /\ PolicyIdle

\* process_pages_parallel: the future of page_num completes and is collected;
\* after the last one the list is sorted and returned
CollectPageInfo(page_num) ==
    /\ phase = "classify"
    /\ page_num \in pending
    /\ pending' = pending \ {page_num}
    /\ completion' = Append(completion, page_num)
    /\ \E collected \in {Append(pages_info,
                                analyze_page_content(page_num, PageOf(page_num)))} :
          IF pending' = {}
          THEN pages_info' = sort(collected, "page_num") /\ phase' = "extract"
          ELSE pages_info' = collected /\ phase' = phase
    /\ UNCHANGED <<doc, cursor, pages_data, batch_results, page_calls, stalled, engines,
                   cache, calls, last_call, first_result, scorer_vars, classifier_vars,
                   policy_vars>>

\* _process_pages_for_extraction: one iteration of the for loop; after the
\* last one merge_pages_to_document sorts the records by page number
ProcessPage(penv) ==
    /\ phase = "extract"
    /\ cursor <= Len(pages_info)
    /\ pages_info[cursor].page_num \notin stalled
    /\ \E page_info \in {pages_info[cursor]} :
       \E out \in {process_single_page(engines, page_info.page_num,
                                       PageOf(page_info.page_num),
                                       page_info.content_type, page_info.needs_ocr,
                                       penv, cache)} :
       \E appended \in {extraction_step(pages_data, page_info, out.record)} :
          /\ cache' = out.files
          /\ page_calls' = Append(page_calls, [page_num |-> page_info.page_num,
                                                invoked |-> out.invoked])
          /\ cursor' = cursor + 1
          /\ IF cursor' > Len(pages_info)
             THEN pages_data' = sort(appended, "page_num") /\ phase' = "done"
             ELSE pages_data' = appended /\ phase' = phase
    /\ UNCHANGED <<doc, pending, completion, pages_info, batch_results, stalled,
                   engines, calls, last_call, first_result, scorer_vars,
                   classifier_vars, policy_vars>>

\* the adapters are reached on the page: no native-text return, an image, a
\* cache miss and an engine to call
reaches_adapters(avail, page, content_type, needs_ocr, files) ==
    /\ ~(~needs_ocr /\ Len(strip(extract_page_text_native(page))) >= MIN_TEXT_LENGTH)
    /\ page.render.ok
    /\ load_from_cache(create_cache_key(page.render.val, content_type), files)
          \in {NONE, Some(<<>>)}
    /\ avail.tesseract \/ avail.easyocr

\* _process_pages_for_extraction: the iteration enters an adapter call that
\* never returns; there is no timeout, the for loop stays in this iteration
ProcessPageHangs ==
    /\ phase = "extract"
    /\ cursor <= Len(pages_info)
    /\ stalled = {}
    /\ reaches_adapters(engines, PageOf(pages_info[cursor].page_num),
                        pages_info[cursor].content_type, pages_info[cursor].needs_ocr,
                        cache)
    /\ stalled' = {pages_info[cursor].page_num}
    /\ UNCHANGED <<doc, phase, pending, completion, pages_info, cursor, pages_data,
                   batch_results, page_calls, engines, cache, calls, last_call,
                   first_result, scorer_vars, classifier_vars,
                   policy_vars>>

FailedImage(index) ==
    [page_index |-> index, text |-> <<>>, confidence |-> Conf(0),
     method |-> "failed", error |-> "str(e)"]

\* lines 265-277 of batch_extract
batch_record(index, ret) ==
    IF ret = NONE THEN FailedImage(index) ELSE [page_index |-> index] @@ ret[1]

\* batch_extract: the future of image index completes and is collected; after
\* the last one the list is sorted and returned
CollectBatchResult(index, env) ==
    /\ phase = "batch"
    /\ index \in pending \ stalled
    /\ pending' = pending \ {index}
    /\ completion' = Append(completion, index)
    /\ \E out \in {extract_text_comprehensive(engines, Image(PageOf(index).render.val),
                                              "mixed", TRUE, env, cache)} :
       \E collected \in {Append(batch_results, batch_record(index, out.ret))} :
          /\ cache' = out.files
          /\ IF pending' = {}
             THEN batch_results' = sort(collected, "page_index") /\ phase' = "batch_done"
             ELSE batch_results' = collected /\ phase' = phase
    /\ UNCHANGED <<doc, pages_info, cursor, pages_data, page_calls, stalled, engines,
                   calls, last_call, first_result, scorer_vars, classifier_vars,
                   policy_vars>>

\* batch_extract: the worker running image index enters an adapter call that
\* never returns; its future never completes, the other workers go on
BatchCallHangs(index) ==
    /\ phase = "batch"
    /\ index \in pending
    /\ stalled = {}
    /\ reaches_adapters(engines, PageOf(index), "mixed", TRUE, cache)
    /\ stalled' = {index}
    /\ UNCHANGED <<doc, phase, pending, completion, pages_info, cursor, pages_data,
                   batch_results, page_calls, engines, cache, calls, last_call,
                   first_result, scorer_vars, classifier_vars,
                   policy_vars>>

Next ==
    \/ \E page_num \in pending : CollectPageInfo(page_num)
    \/ \E penv \in PipelineEnvs : ProcessPage(penv)
    \/ \E index \in pending, env \in PipelineOcrEnvs : CollectBatchResult(index, env)
    \/ ProcessPageHangs
    \/ \E index \in pending : BatchCallHangs(index)

Spec == Init /\ [][Next]_vars

HasField(r, name) == name \in DOMAIN r

ResultInRange(r) ==
    /\ ConfInRange(r.confidence)
    /\ \A e \in {items(r.all_results)[i] : i \in 1..Len(items(r.all_results))} :
          ConfInRange(e.confidence)

\* C5: every confidence lies in [0, 100]: the adapters' (the pairs of
\* all_results), the scorer's best_confidence, and every page record's.
C5_ConfidencesInRange ==
    /\ \A i \in 1..Len(pages_data) :
          /\ ConfInRange(pages_data[i].confidence)
          /\ HasField(pages_data[i], "ocr_details") =>
                ResultInRange(pages_data[i].ocr_details)
    /\ \A i \in 1..Len(batch_results) :
          /\ ConfInRange(batch_results[i].confidence)
          /\ HasField(batch_results[i], "all_results") => ResultInRange(batch_results[i])
    /\ \A f \in cache : ResultInRange(eval_result(f.content))

\* a native_text page of confidence 100 beside a recognized page one of whose
\* candidates has confidence 100
C5_Witness ==
    /\ phase = "done"
    /\ \E i \in 1..Len(pages_data) :
          pages_data[i].method = "native_text" /\ pages_data[i].confidence = Conf(100)
    /\ \E i \in 1..Len(pages_data) :
          /\ HasField(pages_data[i], "ocr_details")
          /\ \E j \in 1..Len(items(pages_data[i].ocr_details.all_results)) :
                RatEq(items(pages_data[i].ocr_details.all_results)[j].confidence, Conf(100))

OnePerPage(records, key) ==
    /\ Len(records) = PageCount
    /\ \A p \in 0..(PageCount - 1) :
          Cardinality({i \in 1..Len(records) : records[i][key] = p}) = 1

\* C8: whatever fails on a page, exactly one record is produced for every
\* page: each finished iteration has left one record for its page, an
\* unfinished run always has a page left to take, and a finished run has as
\* many records as the document has pages, one for every page index.
C8_OneRecordPerPage ==
    /\ phase = "extract" =>
          /\ cursor <= Len(pages_info)
          /\ Len(pages_data) = cursor - 1
          /\ \A i \in 1..Len(pages_data) : pages_data[i].page_num = pages_info[i].page_num
    /\ phase = "done" => OnePerPage(pages_data, "page_num")
    /\ phase = "batch" =>
          /\ pending # {}
          /\ Len(batch_results) + Cardinality(pending) = PageCount
    /\ phase = "batch_done" => OnePerPage(batch_results, "page_index")

\* the first page failed and the second was still processed
C8_Witness ==
    /\ phase = "done"
    /\ PageCount = 2
    /\ pages_data[1].method = "failed"
    /\ pages_data[2].method # "failed"
    /\ pages_data[2].page_num = 1

StrictlyAscending(records, key) ==
    \A i \in 1..(Len(records) - 1) : records[i][key] < records[i + 1][key]

\* C9: whatever the completion order, the list process_pages_parallel returns and
\* the list batch_extract returns are sorted strictly ascending by page index.
C9_SortedByPageIndex ==
    /\ phase \in {"extract", "done"} => StrictlyAscending(pages_info, "page_num")
    /\ phase = "batch_done" => StrictlyAscending(batch_results, "page_index")

\* the futures completed in descending order
C9_Witness ==
    /\ phase \in {"extract", "batch_done"}
    /\ Len(completion) = 2
    /\ completion[1] > completion[2]

InfoOf(page_num) ==
    pages_info[CHOOSE j \in 1..Len(pages_info) : pages_info[j].page_num = page_num]
CallsOf(page_num) ==
    page_calls[CHOOSE j \in 1..Len(page_calls) : page_calls[j].page_num = page_num]
NativeOf(page_num) == extract_page_text_native(PageOf(page_num))

\* C11: a page classified needs_ocr = false whose stripped native text has at
\* least T characters gets a record of method native_text and confidence 100,
\* and neither adapter is invoked for it.
C11_NativeTextNoAdapters ==
    \A i \in 1..Len(pages_data) :
        LET r == pages_data[i]
        IN  (/\ ~InfoOf(r.page_num).needs_ocr
             /\ Len(strip(NativeOf(r.page_num))) >= MIN_TEXT_LENGTH)
            => /\ r.method = "native_text"
               /\ r.confidence = Conf(100)
               /\ CallsOf(r.page_num).invoked = <<>>

\* a native_text page processed after a page on which the adapters were invoked
C11_Witness ==
    /\ phase = "done"
    /\ PageCount = 2
    /\ CallsOf(0).invoked # <<>>
    /\ ~InfoOf(1).needs_ocr
    /\ pages_data[2].method = "native_text"
    /\ pages_data[2].text # <<>>
    /\ CallsOf(1).invoked = <<>>

\* the page does not return at the native-text branch
NeedsRecognition(page_num) ==
    InfoOf(page_num).needs_ocr \/ Len(strip(NativeOf(page_num))) < MIN_TEXT_LENGTH

\* C12: a page that needs recognition and cannot be rasterized gets a record of
\* method native_fallback carrying the native text, however short, with
\* confidence 50 when that text is non-empty and 0 when it is empty; no adapter
\* is invoked for it.
C12_RenderFailureFallsBack ==
    \A i \in 1..Len(pages_data) :
        LET r == pages_data[i]
        IN  (NeedsRecognition(r.page_num) /\ ~PageOf(r.page_num).render.ok)
            => /\ r.method = "native_fallback"
               /\ r.text = NativeOf(r.page_num)
               /\ r.confidence = IF r.text # <<>> THEN Conf(50) ELSE Conf(0)
               /\ CallsOf(r.page_num).invoked = <<>>

\* one fallback record with a short text and confidence 50, one with no text
\* and confidence 0
C12_Witness ==
    /\ phase = "done"
    /\ PageCount = 2
    /\ ~PageOf(0).render.ok /\ ~PageOf(1).render.ok
    /\ pages_data[1].method = "native_fallback"
    /\ pages_data[1].text = Hello /\ pages_data[1].confidence = Conf(50)
    /\ pages_data[2].method = "native_fallback"
    /\ pages_data[2].text = <<>> /\ pages_data[2].confidence = Conf(0)

\* C13: every page record whose method is failed or native_fallback carries
\* the captured error text.
C13_DegradedCarriesError ==
    \A i \in 1..Len(pages_data) :
        pages_data[i].method \in {"failed", "native_fallback"}
            => HasField(pages_data[i], "error")

\* the probes of analyze_page_content that failed on a page
NativeProbeFails(page) ==
    \/ ~page.mu_text.ok
    \/ Len(strip(page.mu_text.val)) < MIN_TEXT_LENGTH /\ ~page.pl_text.ok
CountProbeFails(page) == ~page.tables.ok \/ ~page.images.ok
AllClassified ==
    /\ Len(pages_info) = PageCount
    /\ \A p \in 0..(PageCount - 1) : \E j \in 1..Len(pages_info) : pages_info[j].page_num = p

Called == last_call # NONE
VariantsOf(r) == {r.all_results[v].k : v \in 1..Len(r.all_results)}

\* C15: when a transform of the preprocessing pipeline raises during a call, no
\* exception leaves the call and the variant with_preprocessing is still
\* recognized.
C15_TransformFailureAbsorbed ==
    (Called /\ "transform" \in Last.faults)
        => Returned /\ "with_preprocessing" \in VariantsOf(Last.ret[1])

\* C18: when reading or writing the cache entry fails during a call, the call
\* behaves as on a cache miss: the recognition runs and the freshly computed
\* result is returned, no exception leaves the call.
C18_CacheFaultIsMiss ==
    (Called /\ Last.faults \cap {"cache_read", "cache_write"} # {})
        => /\ Returned
           /\ ~Last.hit
           /\ Last.invoked # <<>> \/ engines = [tesseract |-> FALSE, easyocr |-> FALSE]

(***************************************************************************)
(* SpecPolicy: the policy lookup of extract_with_preprocessing followed by *)
(* preprocess_image, on every document type and failing transform          *)
(***************************************************************************)
MaxFailAt == 3
PolicyDocTypes == {"text", "table", "mixed", "image", "form", "none"}
PolicyImages == {Image(Px1), Image(Px2), Image(Px3)}

PolicyInit ==
    /\ pp_in \in {Some(c) : c \in [image : PolicyImages, document_type : PolicyDocTypes,
                                   fail_at : 0..MaxFailAt]}
    /\ pp_out = NONE /\ workers = <<>>
    /\ ad_in = NONE /\ ad_out = NONE
    /\ ScorerIdle /\ ClassifierIdle /\ EngineIdle /\ PipelineIdle

\* lines 141-149 of extract_with_preprocessing
Preprocess ==
    /\ pp_out = NONE
    /\ pp_out' = Some(preprocess_image(pp_in[1].image,
                                       preprocessing_of(pp_in[1].document_type),
                                       pp_in[1].fail_at))
    /\ UNCHANGED <<pp_in, workers, ad_in, ad_out, scorer_vars, classifier_vars,
                   engine_vars, pipeline_vars>>

PolicyNext == Preprocess

SpecPolicy == PolicyInit /\ [][PolicyNext]_vars

Preprocessed == pp_out # NONE /\ pp_out[1] # NONE
StepsApplied == pp_out[1][1].ops
MixedSteps == <<"deskew", "noise_removal", "contrast_enhancement">>

\* C16: for a document_type that is not a key of the policy table (the
\* classifier's value image among them) the steps applied are deskew,
\* noise_removal, contrast_enhancement in that order, the mixed policy's; for
\* text they are deskew, noise_removal and for table deskew, line_detection.
C16_UnmappedTypeUsesMixedPolicy ==
    Preprocessed =>
        /\ pp_in[1].document_type \notin {"text", "table"} => StepsApplied = MixedSteps
        /\ pp_in[1].document_type = "text" => StepsApplied = <<"deskew", "noise_removal">>
        /\ pp_in[1].document_type = "table" => StepsApplied = <<"deskew", "line_detection">>

\* the classifier's own value image went through the three steps of mixed
C16_Witness ==
    /\ Preprocessed
    /\ pp_in[1].document_type = "image"
    /\ StepsApplied = MixedSteps
    /\ pp_out[1][1].pixels = pp_in[1].image.pixels

EngineNames == {"tesseract", "easyocr"}
AvailableEngines == {e \in EngineNames : engines[e]}
EntriesOf(r) ==
    UNION {{r.all_results[v].v[i].k : i \in 1..Len(r.all_results[v].v)} :
           v \in 1..Len(r.all_results)}

\* C17: an adapter whose engine is unavailable returns ("", 0) whatever the
\* engine would answer or raise, the engine is not called, and no variant of
\* any result carries an entry for it.
C17_UnavailableAdapterContributesNothing ==
    /\ ~engines.tesseract =>
          \A raw \in {TessGood, TessDropped, RaiseRaw} :
              extract_with_tesseract(engines.tesseract, raw)
                  = [text |-> <<>>, confidence |-> Conf(0)]
    /\ ~engines.easyocr =>
          \A raw \in {EasyGood, EasyBlank, RaiseRaw} :
              extract_with_easyocr(engines.easyocr, raw)
                  = [text |-> <<>>, confidence |-> Conf(0)]
    /\ \A r \in ComprehensiveResults : EntriesOf(r) \subseteq AvailableEngines
    /\ Called =>
          \A i \in 1..Len(Last.invoked) :
              Last.invoked[i] \in EngineNames => Last.invoked[i] \in AvailableEngines

\* a computed result of an engine object without tesseract: both variants
\* were recognized by easyocr alone
C17_Witness ==
    /\ ~engines.tesseract /\ engines.easyocr
    /\ Returned /\ ~Last.hit
    /\ Len(Last.ret[1].all_results) = 2
    /\ EntriesOf(Last.ret[1]) = {"easyocr"}
    /\ Last.ret[1].text # <<>>
    /\ "easyocr" \in {Last.invoked[i] : i \in 1..Len(Last.invoked)}

\* with a stalled call, no step of the run is possible any more
Quiescent ==
    \/ phase = "extract" /\ cursor <= Len(pages_info)
       /\ pages_info[cursor].page_num \in stalled
    \/ phase = "batch" /\ pending \subseteq stalled
HasRecord(p) ==
    \/ \E i \in 1..Len(pages_data) : pages_data[i].page_num = p
    \/ \E i \in 1..Len(batch_results) : batch_results[i].page_index = p

\* C20: when the adapter call of one page never returns, every other page
\* still gets its record: once the run can take no further step, only the
\* stalled page is without a record.
C20_StallIsLocal ==
    (stalled # {} /\ Quiescent) =>
        \A p \in (0..(PageCount - 1)) \ stalled : HasRecord(p)

(***************************************************************************)
(* SpecRace: two workers of batch_extract run extract_text_comprehensive   *)
(* on the same pixel bytes and document type, sharing one cache file and   *)
(* no lock.  A call is taken step by step: exists(), open and read, the    *)
(* recognition, open(path, 'w') (which truncates), and the write, which    *)
(* reaches the file in one piece or in two (a reader can see the file      *)
(* between two writes of the buffered stream or in the middle of one write *)
(* system call).  The content of a file is the sequence of (name, value)   *)
(* pairs of str(dict); each worker writes at its own file offset.          *)
(***************************************************************************)
RaceImage == Image(Px1)
RaceKey == create_cache_key(RaceImage.pixels, "mixed")
RaceEnvs ==
    Envs({TessGood}, {EasyGood}, {0}, {TessDropped}, {EasyBlank}, 1..MaxTime,
         {FALSE}, {FALSE})
FieldNames ==
    <<"text", "confidence", "method", "processing_time", "all_results", "text_length",
      "is_meaningful", "document_type">>
Hole == <<"", <<>>>>

FileExists == cache # {}
FileContent == (CHOOSE f \in cache : TRUE).content
FileWith(content) == {[key |-> RaceKey, content |-> content]}

\* bytes written at an offset of the file; a gap left by a truncation reads as
\* NUL bytes
write_at(content, offset, data) ==
    [i \in 1..(IF Len(content) > offset + Len(data) THEN Len(content)
               ELSE offset + Len(data)) |->
        IF i > offset /\ i <= offset + Len(data) THEN data[i - offset]
        ELSE IF i <= Len(content) THEN content[i]
        ELSE Hole]

\* eval(cached_result) returns a dict only for a complete dict display
evaluates(content) ==
    /\ Len(content) = Len(FieldNames)
    /\ \A i \in 1..Len(content) : content[i][1] = FieldNames[i]

HeadOf(data) == SubSeq(data, 1, Len(data) \div 2)
TailOf(data) == SubSeq(data, Len(data) \div 2 + 1, Len(data))

RaceInit ==
    /\ workers = [w \in 1..2 |-> [pc |-> "exists", data |-> NONE, ret |-> NONE]]
    /\ engines = [tesseract |-> TRUE, easyocr |-> TRUE]
    /\ cache = {} /\ calls = 0 /\ last_call = NONE /\ first_result = {}
    /\ doc = <<>> /\ phase = "batch" /\ pending = {0, 1} /\ completion = <<>>
    /\ pages_info = <<>> /\ cursor = 1 /\ pages_data = <<>> /\ batch_results = <<>>
    /\ page_calls = <<>> /\ stalled = {}
    /\ pp_in = NONE /\ pp_out = NONE
    /\ ad_in = NONE /\ ad_out = NONE
    /\ ScorerIdle /\ ClassifierIdle

race_unchanged ==
    UNCHANGED <<engines, calls, last_call, first_result, doc, pages_info, cursor,
                pages_data, page_calls, stalled, pp_in, pp_out, ad_in, ad_out,
                scorer_vars, classifier_vars>>

\* the worker goes on inside its call
RaceStep(w, pc, data, files) ==
    /\ workers' = [workers EXCEPT ![w].pc = pc, ![w].data = data]
    /\ cache' = files
    /\ UNCHANGED <<phase, pending, completion, batch_results>>
    /\ race_unchanged

\* the call of the worker returns ret or raises (ret = NONE); batch_extract
\* collects its future (lines 263-277) and sorts after the last one
RaceFinish(w, ret, files) ==
    /\ workers' = [workers EXCEPT ![w].pc = IF ret = NONE THEN "raised" ELSE "returned",
                                  ![w].ret = ret]
    /\ cache' = files
    /\ pending' = pending \ {w - 1}
    /\ completion' = Append(completion, w - 1)
    /\ \E collected \in {Append(batch_results, batch_record(w - 1, ret))} :
          IF pending' = {}
          THEN batch_results' = sort(collected, "page_index") /\ phase' = "batch_done"
          ELSE batch_results' = collected /\ phase' = phase
    /\ race_unchanged

\* load_from_cache: cache_path.exists()
RaceExists(w) ==
    /\ workers[w].pc = "exists"
    /\ RaceStep(w, IF FileExists THEN "read" ELSE "compute", NONE, cache)

\* load_from_cache: open and f.read(); then lines 207-208 of
\* extract_text_comprehensive
RaceRead(w) ==
    /\ workers[w].pc = "read"
    /\ IF FileContent = <<>> THEN RaceStep(w, "compute", NONE, cache)
       ELSE IF evaluates(FileContent)
            THEN RaceFinish(w, Some(eval_result(FileContent)), cache)
            ELSE RaceFinish(w, NONE, cache)

\* lines 210-230: the recognition and the final_result dict
RaceCompute(w, env) ==
    /\ workers[w].pc = "compute"
    /\ \E out \in {extract_text_comprehensive(engines, RaceImage, "mixed", FALSE, env,
                                              {})} :
          RaceStep(w, "open_w", out.ret, cache)

\* save_to_cache: open(cache_path, 'w') creates or truncates the file
RaceOpenWrite(w) ==
    /\ workers[w].pc = "open_w"
    /\ RaceStep(w, "write", workers[w].data, FileWith(<<>>))

\* save_to_cache: f.write(str(data)) reaches the file in one piece
RaceWriteAll(w) ==
    /\ workers[w].pc = "write"
    /\ RaceFinish(w, workers[w].data,
                  FileWith(write_at(FileContent, 0, str_result(workers[w].data[1]))))

\* save_to_cache: the first part of str(data) reaches the file
RaceWriteHead(w) ==
    /\ workers[w].pc = "write"
    /\ RaceStep(w, "write_tail", workers[w].data,
                FileWith(write_at(FileContent, 0,
                                  HeadOf(str_result(workers[w].data[1])))))

\* save_to_cache: the rest of str(data) reaches the file, and the call returns
RaceWriteTail(w) ==
    /\ workers[w].pc = "write_tail"
    /\ RaceFinish(w, workers[w].data,
                  FileWith(write_at(FileContent,
                                    Len(HeadOf(str_result(workers[w].data[1]))),
                                    TailOf(str_result(workers[w].data[1])))))

RaceNext ==
    \E w \in 1..2 :
        \/ RaceExists(w)
        \/ RaceRead(w)
        \/ \E env \in RaceEnvs : RaceCompute(w, env)
        \/ RaceOpenWrite(w)
        \/ RaceWriteAll(w)
        \/ RaceWriteHead(w)
        \/ RaceWriteTail(w)

SpecRace == RaceInit /\ [][RaceNext]_vars

\* C19: when two workers run extract_text_comprehensive concurrently on the
\* same pixel bytes and document type, under every interleaving of their
\* steps on the cache file neither call raises and no failed record is
\* collected.
C19_RaceOnlyDuplicatesWork ==
    /\ \A w \in 1..Len(workers) : workers[w].pc # "raised"
    /\ \A i \in 1..Len(batch_results) : batch_results[i].method # "failed"

\* t occurs in s at position i
occurs_at(s, t, i) ==
    /\ i >= 1 /\ i + Len(t) - 1 <= Len(s)
    /\ \A k \in 1..Len(t) : s[i + k - 1] = t[k]

\* s contains a, then b, then c, without overlap
contains_in_order(s, a, b, c) ==
    \E i \in 1..Len(s) : \E j \in (i + Len(a))..Len(s) : \E k \in (j + Len(b))..Len(s) :
        occurs_at(s, a, i) /\ occurs_at(s, b, j) /\ occurs_at(s, c, k)

Separator == <<"-", "-", "-">>
TableBlockOf(page_num) ==
    strip(process_tables_from_data(extract_tables_from_page(PageOf(page_num))))

\* a page record made from a recognition result with a text, of a page with
\* no native text and a detected, extractable table
ScenarioB(r) ==
    LET page == PageOf(r.page_num)
    IN  /\ HasField(r, "ocr_details")
        /\ r.ocr_details.text # <<>>
        /\ NativeOf(r.page_num) = <<>>
        /\ page.tables.ok /\ page.tables.val > 0 /\ page.images.ok
        /\ extract_tables_from_page(page) # <<>>

\* C21: for a page with empty native text and at least one detected table,
\* content_type is table and the final text contains the chosen OCR text, then
\* a '---' separator, then the table block, in that order.
C21_TableBlockAfterOcrText ==
    \A i \in 1..Len(pages_data) :
        LET r == pages_data[i]
        IN  ScenarioB(r) =>
               /\ r.content_type = "table"
               /\ contains_in_order(r.text, r.ocr_details.text, Separator,
                                    TableBlockOf(r.page_num))

(***************************************************************************)
(* SpecLoad: extract_text_comprehensive on a cache directory whose files   *)
(* were left by earlier runs or by anyone who can write to the directory.  *)
(* A file holds the source text of a Python expression:                    *)
(*   a dict display whose values are literals or call expressions,         *)
(*   a bare call expression, a text that is no expression, or nothing.     *)
(* eval evaluates the expression: a call expression is called.             *)
(***************************************************************************)
Lit(v) == [kind |-> "literal", val |-> v]
CallExpr(fn) == [kind |-> "call", fn |-> fn]
DictDisplay(pairs) == [kind |-> "dict", pairs |-> pairs]
NoExpression == [kind |-> "invalid"]
EmptyFile == [kind |-> "empty"]

\* str(final_result): every value is printed as its literal
display_of(r) ==
    DictDisplay([i \in 1..Len(str_result(r)) |->
                    <<str_result(r)[i][1], Lit(str_result(r)[i][2])>>])

ValueOfCall(fn) == <<"returned by", fn>>

RECURSIVE calls_in(_)
calls_in(pairs) ==
    IF pairs = <<>> THEN <<>>
    ELSE (IF Head(pairs)[2].kind = "call" THEN <<Head(pairs)[2].fn>> ELSE <<>>)
         \o calls_in(Tail(pairs))

\* eval(source): the value, or a raise (ok = FALSE), and the calls made on the way
eval_py(e) ==
    CASE e.kind = "dict" ->
            [ok |-> TRUE,
             value |-> [i \in 1..Len(e.pairs) |->
                          <<e.pairs[i][1],
                            IF e.pairs[i][2].kind = "call"
                            THEN ValueOfCall(e.pairs[i][2].fn) ELSE e.pairs[i][2].val>>],
             executed |-> calls_in(e.pairs)]
      [] e.kind = "call" ->
            [ok |-> TRUE, value |-> ValueOfCall(e.fn), executed |-> <<e.fn>>]
      [] OTHER -> [ok |-> FALSE, value |-> <<>>, executed |-> <<>>]

\* what a decoder of a structured encoding makes of the same text: the record
\* when the text is a display of literals, a rejection otherwise
decode_only(e) ==
    IF e.kind = "dict" /\ \A i \in 1..Len(e.pairs) : e.pairs[i][2].kind = "literal"
    THEN Some([i \in 1..Len(e.pairs) |-> <<e.pairs[i][1], e.pairs[i][2].val>>])
    ELSE NONE

LoadImages == {Image(Px1), Image(Px2)}
LoadDocTypes == {"text"}
LoadEnvs ==
    Envs({TessGood}, {EasyGood, EasyBlank}, {0}, {TessDropped}, {EasyBlank}, {1},
         {FALSE}, {FALSE})
StoredResult ==
    final_result(extract_with_preprocessing([tesseract |-> TRUE, easyocr |-> TRUE],
                                            Image(Px1), "text",
                                            CHOOSE env \in LoadEnvs : TRUE)[1],
                 "text", 1)
LoadContents ==
    { display_of(StoredResult),
      DictDisplay(<< <<"text", Lit(Hello)>>,
                     <<"confidence", CallExpr("__import__('os').system('id')")>> >>),
      CallExpr("__import__('shutil').rmtree('output')"),
      NoExpression,
      EmptyFile }
LoadDirs ==
    {{}} \cup
    UNION {{ {[key |-> create_cache_key(image.pixels, "text"), content |-> c]} :
               c \in LoadContents } : image \in LoadImages}

LoadInit ==
    /\ engines = [tesseract |-> TRUE, easyocr |-> TRUE]
    /\ cache \in LoadDirs
    /\ calls = 0 /\ last_call = NONE /\ first_result = {}
    /\ ScorerIdle /\ ClassifierIdle /\ PipelineIdle /\ PolicyIdle

\* one call of extract_text_comprehensive, from entry to return or raise
LoadCall(image, document_type, use_cache, env) ==
    /\ calls < MaxCalls
    /\ calls' = calls + 1
    /\ LET cache_key == create_cache_key(image.pixels, document_type)
           cached_result == IF use_cache THEN load_from_cache(cache_key, cache) ELSE NONE
           hit == cached_result # NONE /\ cached_result[1].kind # "empty"
           loaded == eval_py(cached_result[1])
           results == extract_with_preprocessing(engines, image, document_type, env)
           final == final_result(results[1], document_type, env.time)
       IN  /\ cache' = IF hit \/ ~use_cache THEN cache
                       ELSE save_to_cache(cache_key, display_of(final), cache)
           /\ last_call' =
                 Some([pixels |-> image.pixels, document_type |-> document_type,
                       use_cache |-> use_cache, hit |-> hit,
                       stored |-> cached_result,
                       ret |-> IF hit
                               THEN (IF loaded.ok THEN Some(loaded.value) ELSE NONE)
                               ELSE Some(str_result(final)),
                       executed |-> IF hit THEN loaded.executed ELSE <<>>])
    /\ UNCHANGED <<engines, first_result, scorer_vars, classifier_vars, pipeline_vars,
                   policy_vars>>

LoadNext ==
    \E image \in LoadImages, document_type \in LoadDocTypes, use_cache \in BOOLEAN,
       env \in LoadEnvs :
        LoadCall(image, document_type, use_cache, env)

SpecLoad == LoadInit /\ [][LoadNext]_vars

\* C22: loading a cache entry only decodes data: on a cache hit no code is
\* executed, whatever the file holds, and the call gives what parsing the
\* stored text as a structured record gives.
C22_LoadOnlyDecodes ==
    (Called /\ Last.hit) =>
        /\ Last.executed = <<>>
        /\ Last.ret = decode_only(Last.stored[1])

(***************************************************************************)
(* SpecAdapter: one call of a recognition adapter on an engine answer, or  *)
(* the native-text return of _process_single_page on a native text         *)
(***************************************************************************)
MaxTokens == 2
ZeroPipe == <<"1", "0", "0", " ", "|", " ", "a", "b">>
Spaced == <<" ", "a", "\t", "\t", "b", " ">>
AdapterTexts == {Hello, ZeroPipe, Spaced, <<" ">>}
\* tesseract reports -1 for a block without text
TessToks == [text : AdapterTexts, conf : {-1, 0, 60, 90}]
\* 0.099, 0.1, 0.101 and 1.0
EasyToks == [text : AdapterTexts, conf : {99, 100, 101, 1000}]
Answers(Toks) ==
    {RaiseRaw} \cup {Ok(ts) : ts \in UNION {[1..n -> Toks] : n \in 0..MaxTokens}}
NativeTexts ==
    {HelloWorld, TwelveB, ZeroPipe \o <<"\n">> \o TwelveB, Spaced \o <<"\n", "\n">> \o ZeroPipe,
     Rep("0", MIN_TEXT_LENGTH)}

AdapterInit ==
    /\ ad_in \in {Some(c) :
                    c \in [op : {"tesseract"}, available : BOOLEAN,
                           raw : Answers(TessToks), text : {<<>>}]
                          \cup [op : {"easyocr"}, available : BOOLEAN,
                                raw : Answers(EasyToks), text : {<<>>}]
                          \cup [op : {"native_text"}, available : {TRUE},
                                raw : {RaiseRaw}, text : NativeTexts]}
    /\ ad_out = NONE
    /\ pp_in = NONE /\ pp_out = NONE /\ workers = <<>>
    /\ ScorerIdle /\ ClassifierIdle /\ EngineIdle /\ PipelineIdle

adapter_unchanged ==
    UNCHANGED <<ad_in, pp_in, pp_out, workers, scorer_vars, classifier_vars,
                engine_vars, pipeline_vars>>

RunTesseract ==
    /\ ad_in # NONE /\ ad_out = NONE /\ ad_in[1].op = "tesseract"
    /\ ad_out' = Some(extract_with_tesseract(ad_in[1].available, ad_in[1].raw))
    /\ adapter_unchanged

RunEasyocr ==
    /\ ad_in # NONE /\ ad_out = NONE /\ ad_in[1].op = "easyocr"
    /\ ad_out' = Some(extract_with_easyocr(ad_in[1].available, ad_in[1].raw))
    /\ adapter_unchanged

\* lines 193-207 of _process_single_page
ReturnNativeText ==
    /\ ad_in # NONE /\ ad_out = NONE /\ ad_in[1].op = "native_text"
    /\ ad_out' = Some([text |-> text_to_markdown(ad_in[1].text),
                       confidence |-> native_confidence])
    /\ adapter_unchanged

AdapterNext == RunTesseract \/ RunEasyocr \/ ReturnNativeText

SpecAdapter == AdapterInit /\ [][AdapterNext]_vars

AdIn == ad_in[1]
AdOut == ad_out[1]
\* the adapter was called with its engine available and the engine answered
Recognized(op) == ad_out # NONE /\ AdIn.op = op /\ AdIn.available /\ AdIn.raw.ok
texts_of(ts) == [i \in 1..Len(ts) |-> ts[i].text]
\* the text the engine gave: the kept tokens, joined
source_keeps(t) ==
    IF AdIn.op = "tesseract" THEN tesseract_keeps(t) ELSE easyocr_keeps(t)
SourceText == join_space(texts_of(SelectSeq(AdIn.raw.val, source_keeps)))
is_substituted(c) == c \in {"0", "|"}

\* C23: character substitution is not applied by default: the text an adapter
\* returns is the source text with whitespace normalized, and the '0' and '|'
\* characters of a native text are the '0' and '|' characters of the
\* native_text record's text.
C23_NoSubstitutionByDefault ==
    /\ (Recognized("tesseract") \/ Recognized("easyocr"))
          => AdOut.text = collapse(SourceText)
    /\ (ad_out # NONE /\ AdIn.op = "native_text")
          => SelectSeq(AdOut.text, is_substituted) = SelectSeq(AdIn.text, is_substituted)

\* the position in enumeration order of the pair the scorer returned
ScReturned == {i \in ScMeaningful : ScIsEntry(ScBest, i)}
ScMaximal == {i \in ScMeaningful : \A j \in ScMeaningful : ~RatGt(ScQuality(j), ScQuality(i))}

\* C24: when two or more meaningful pairs share the maximum quality the scorer
\* returns the first of them in enumeration order, and the pair it returns is
\* never preceded by a meaningful pair of equal quality.
C24_FirstOnTie ==
    ScorerDone =>
        /\ Cardinality(ScMaximal) >= 2
              => \E i \in ScMaximal :
                    ScIsEntry(ScBest, i) /\ \A j \in ScMaximal : i <= j
        /\ \A i \in ScReturned :
              \A j \in ScMeaningful : j < i => ~RatEq(ScQuality(j), ScQuality(i))

PairNames ==
    {method_name(e, v) : e \in EngineNames, v \in {"no_preprocessing", "with_preprocessing"}}
\* the (engine, variant) pairs whose engine raised during the latest call
RaisedPairs == Last.faults \cap PairNames
entry_stays(variant, raised, e) == method_name(e.k, variant) \notin raised
\* the mapping without the entries of the pairs in raised
without_pairs(results, raised) ==
    [v \in 1..Len(results) |->
        [k |-> results[v].k,
         v |-> SelectSeq(results[v].v,
                         LAMBDA e : entry_stays(results[v].k, raised, e))]]
PairsOf(r) ==
    UNION {{method_name(r.all_results[v].v[i].k, r.all_results[v].k) :
              i \in 1..Len(r.all_results[v].v)} : v \in 1..Len(r.all_results)}
BestOf(r) == [text |-> r.text, confidence |-> r.confidence, method |-> r.method]

\* C25: when an engine raises on a variant during a call that computes, that
\* (engine, variant) pair is not the one selected, every pair of an available
\* engine has its entry in the mapping (the sibling pairs were invoked), and
\* the scorer's result is the one it gives on the mapping without the raising
\* pairs.
C25_RaisingPairContributesNothing ==
    (Returned /\ ~Last.hit /\ RaisedPairs # {}) =>
        LET r == Last.ret[1]
        IN  /\ r.method \notin RaisedPairs
            /\ PairsOf(r) = {method_name(e, v) :
                               e \in AvailableEngines,
                               v \in {"no_preprocessing", "with_preprocessing"}}
            /\ Len(Last.invoked) >= 2 * Cardinality(AvailableEngines)
            /\ \A p \in RaisedPairs :
                  \A v \in 1..Len(r.all_results) : \A i \in 1..Len(r.all_results[v].v) :
                      method_name(r.all_results[v].v[i].k, r.all_results[v].k) = p
                          => r.all_results[v].v[i].v = NoText
            /\ BestOf(r) = choose_best_result(without_pairs(r.all_results, RaisedPairs))

\* tesseract raised on the unprocessed image alone, easyocr was still called
\* on it and its text was selected
C25_Witness ==
    /\ Returned /\ ~Last.hit
    /\ RaisedPairs = {"tesseract_no_preprocessing"}
    /\ Last.ret[1].method = "easyocr_no_preprocessing"
    /\ Last.ret[1].text # <<>>

at_least_tenth(d) == d.conf >= 100

\* C26: the probabilistic adapter keeps exactly the detections of confidence
\* >= 0.10, one at exactly 0.10 included; the confidence it returns is the mean
\* of the kept confidences times 100, and 0 when nothing is kept.
C26_KeepsFromTenth ==
    Recognized("easyocr") =>
        LET kept == SelectSeq(AdIn.raw.val, at_least_tenth)
        IN  /\ AdOut.text = clean_text(join_space(stripped_texts(kept)))
            /\ IF kept = <<>> THEN AdOut.confidence = Conf(0)
               ELSE RatEq(AdOut.confidence,
                          [num |-> sum_conf(kept), den |-> 10 * Len(kept)])

\* what the latest call found in the cache directory for its key
EntryBefore(c) == load_from_cache(create_cache_key(c.pixels, c.document_type), cache)

C27_Call ==
    calls' = calls + 1 =>
        LET c == last_call'[1]
        IN  /\ (/\ c.use_cache
                /\ EntryBefore(c) \notin {NONE, Some(<<>>)}
                /\ "cache_read" \notin c.faults)
               => /\ c.hit
                  /\ c.invoked = <<>>
                  /\ ~c.written
                  /\ cache' = cache
                  /\ c.ret = Some(eval_result(EntryBefore(c)[1]))
            /\ ~c.use_cache
               => /\ ~c.read /\ ~c.hit /\ ~c.written
                  /\ cache' = cache

\* C27: a call that finds an entry for its key invokes no preprocessing step
\* and no adapter, returns the entry and leaves the cache directory as it was;
\* a call with use_cache = False neither reads nor writes the directory.
C27_HitAndBypassFrame == [][C27_Call]_vars

\* a second call served from the entry the first call wrote
C27_Witness ==
    /\ Returned /\ Last.use_cache /\ Last.hit /\ calls >= 2
    /\ Last.invoked = <<>> /\ ~Last.written
    /\ cache = {[key |-> LastKey, content |-> str_result(Last.ret[1])]}

\* a call with use_cache = False beside an entry for its key: the entry is not
\* what it returned
C27_WitnessBypass ==
    /\ Returned /\ ~Last.use_cache /\ ~Last.read /\ Last.invoked # <<>>
    /\ \E f \in cache : f.key = LastKey /\ eval_result(f.content) # Last.ret[1]

(***************************************************************************)
(* SpecKey: extract_text_comprehensive called on pixel bytes and document  *)
(* types that hold the characters the key text is built with               *)
(***************************************************************************)
KeyPixels == {<<"a">>, <<"a", "_", "b">>, <<"a", "'">>}
KeyDocTypes == {"c", "b_c", "text"}
KeyEnvs ==
    Envs({TessGood}, {EasyGood, EasyBlank}, {0}, {TessDropped}, {EasyBlank}, {1},
         {FALSE}, {FALSE})

KeyInit ==
    /\ engines = [tesseract |-> TRUE, easyocr |-> TRUE]
    /\ cache = {} /\ calls = 0 /\ last_call = NONE /\ first_result = {}
    /\ ScorerIdle /\ ClassifierIdle /\ PipelineIdle /\ PolicyIdle

KeyNext ==
    \E pixels \in KeyPixels, document_type \in KeyDocTypes, use_cache \in BOOLEAN,
       env \in KeyEnvs :
        ExtractCall(Image(pixels), document_type, use_cache, env)

SpecKey == KeyInit /\ [][KeyNext]_vars

SameInput(f) == f.pixels = Last.pixels /\ f.document_type = Last.document_type

\* C28: a result stored for (pixel bytes P, document_type D) is returned only
\* to calls with the same P and the same D: a call served from the cache is
\* served the result of an earlier call on its own P and D, and the entry of
\* a call that differs in P or in D is never the one it finds.
C28_EntryServedToSameInputOnly ==
    /\ (Returned /\ Last.hit)
          => \E f \in first_result : SameInput(f) /\ f.result = Last.ret[1]
    /\ Called => \A f \in first_result : ~SameInput(f) => f.key # LastKey
    /\ \A f \in cache : \E g \in first_result : g.key = f.key

\* after a call on (a_b, c) was cached, a call on (a, b_c) found no entry and
\* computed its own
C28_Witness ==
    /\ Returned /\ Last.use_cache /\ ~Last.hit /\ Last.written
    /\ Last.pixels = <<"a">> /\ Last.document_type = "b_c"
    /\ \E f \in first_result : f.pixels = <<"a", "_", "b">> /\ f.document_type = "c"
    /\ Cardinality(cache) = 2

\* the ComprehensiveResult extract_text_comprehensive builds from the mapping
ScFinal == final_result(sc_results, "mixed", 0)

\* C29: when the mapping holds a meaningful pair of confidence >= 0, the
\* scorer returns a method other than none and a non-empty text, and the
\* ComprehensiveResult built from it has is_meaningful true and text_length
\* the length of the text; a result of method none has is_meaningful false
\* and text_length 0.
C29_MeaningfulInputGivesResult ==
    ScorerDone =>
        /\ BestOf(ScFinal) = ScBest
        /\ (\E i \in ScMeaningful : RatGe(ScEntries[i].confidence, Conf(0)))
              => /\ ScBest.method # "none"
                 /\ ScBest.text # <<>>
                 /\ ScFinal.is_meaningful
                 /\ ScFinal.text_length = Len(ScBest.text)
        /\ ScBest.method = "none"
              => /\ ~ScFinal.is_meaningful
                 /\ ScFinal.text_length = 0

\* the only meaningful pair has confidence 0 and is returned
C29_Witness ==
    /\ ScorerDone
    /\ ScMeaningful # {}
    /\ \A i \in ScMeaningful : ScEntries[i].confidence = Conf(0)
    /\ ScBest.method # "none"
    /\ ScBest.text = HelloWorld /\ ScBest.confidence = Conf(0)
    /\ ScFinal.is_meaningful /\ ScFinal.text_length = 11

\* C30: the record of a page on which recognition ran has the OCR result's
\* method exactly when the OCR text is strictly longer than the native text
\* and the method native otherwise, and its confidence is the OCR result's
\* in both cases; no page record has the method none.
C30_MethodFollowsLongerText ==
    \A i \in 1..Len(pages_data) :
        LET r == pages_data[i]
        IN  /\ r.method # "none"
            /\ HasField(r, "ocr_details")
                  => /\ r.method =
                          IF Len(r.ocr_details.text) > Len(NativeOf(r.page_num))
                          THEN r.ocr_details.method ELSE "native"
                     /\ r.method = r.ocr_details.method
                          <=> Len(r.ocr_details.text) > Len(NativeOf(r.page_num))
                     /\ r.confidence = r.ocr_details.confidence

\* one page whose native text was kept beside an OCR text of the same length,
\* with the OCR confidence, and one page on which nothing was recognized
C30_Witness ==
    /\ phase = "done"
    /\ PageCount = 2
    /\ pages_data[1].method = "native"
    /\ HasField(pages_data[1], "ocr_details")
    /\ pages_data[1].ocr_details.method = "tesseract_no_preprocessing"
    /\ Len(pages_data[1].ocr_details.text) = Len(NativeOf(0))
    /\ RatEq(pages_data[1].confidence, Conf(90))
    /\ pages_data[2].method = "native"
    /\ HasField(pages_data[2], "ocr_details")
    /\ pages_data[2].ocr_details.method = "none"
    /\ pages_data[2].confidence = Conf(0)

====
